---- MODULE Spec2Model ----
(***************************************************************************)
(* A model of the cerealize codec engine (src/src/cerealize.py): the       *)
(* primitive, text, array and record codecs, the size protocol, and a      *)
(* driver that encodes a value, edits the resulting buffer and decodes it. *)
(*                                                                         *)
(* Bytes are naturals 0..255 and a bytes object is a sequence of them.     *)
(* Python values are tagged records: IntV, BoolV, StrV (a sequence of code *)
(* points), ListV, ObjV (an attrs instance) and NoneV.  A call either      *)
(* returns or raises; a raise is a result with ok = FALSE and the          *)
(* exception, with its __cause__ chain, in err.                            *)
(***************************************************************************)
EXTENDS Integers, Sequences, FiniteSets, TLC

VARIABLES descr, input, buffer, fresh, edits, op, out

vars == <<descr, input, buffer, fresh, edits, op, out>>

(***************************************************************************)
(* Bounds of the model.                                                    *)
(***************************************************************************)
MaxEdits == 2

MaxTextLen == 2

MaxStrSize == 2

MaxArrayLen == 2

(***************************************************************************)
(* Python values.                                                          *)
(***************************************************************************)
IntV(i) == [k |-> "int", i |-> i]

BoolV(b) == [k |-> "bool", b |-> b]

StrV(s) == [k |-> "str", s |-> s]

ListV(s) == [k |-> "list", l |-> s]

ObjV(cls, vals) == [k |-> "obj", cls |-> cls, o |-> vals]

NoneV == [k |-> "none"]

\* bool(value) as struct's '?' format applies it
Truthy(val) ==
  CASE val.k = "int" -> val.i # 0
    [] val.k = "bool" -> val.b
    [] val.k = "str" -> val.s # <<>>
    [] val.k = "list" -> val.l # <<>>
    [] val.k = "obj" -> TRUE
    [] OTHER -> FALSE

(***************************************************************************)
(* Results and exceptions.                                                 *)
(***************************************************************************)
NoErr == [type |-> "none"]

StructError == [type |-> "struct.error"]

TypeError == [type |-> "TypeError"]

AttributeError == [type |-> "AttributeError"]

UnicodeDecodeError == [type |-> "UnicodeDecodeError"]

Bytes(b) == [ok |-> TRUE, bytes |-> b, err |-> NoErr]

RaiseEnc(e) == [ok |-> FALSE, bytes |-> <<>>, err |-> e]

Decoded(val, rest) == [ok |-> TRUE, val |-> val, rest |-> rest, err |-> NoErr]

RaiseDec(e) == [ok |-> FALSE, val |-> NoneV, rest |-> <<>>, err |-> e]

Size(n) == [ok |-> TRUE, n |-> n, err |-> NoErr]

RaiseSize(e) == [ok |-> FALSE, n |-> 0, err |-> e]

(***************************************************************************)
(* Sequence helpers: Python slices buf[:n] and buf[n:], bytes(n).          *)
(***************************************************************************)
Take(s, n) == SubSeq(s, 1, IF n < Len(s) THEN n ELSE Len(s))

Drop(s, n) == SubSeq(s, (IF n < Len(s) THEN n ELSE Len(s)) + 1, Len(s))

Zeros(n) == [i \in 1..n |-> 0]

RECURSIVE Pow(_, _)
Pow(b, e) == IF e = 0 THEN 1 ELSE b * Pow(b, e - 1)

(***************************************************************************)
(* struct.pack / struct.unpack for the formats the primitives use.         *)
(* symbol: "?" bool, "B"/"H" unsigned, "b"/"h" signed; order "<" or ">".   *)
(***************************************************************************)
Signed(symbol) == symbol \in {"b", "h"}

MinOf(size, symbol) == IF Signed(symbol) THEN 0 - Pow(2, 8 * size - 1) ELSE 0

MaxOf(size, symbol) ==
  IF Signed(symbol) THEN Pow(2, 8 * size - 1) - 1 ELSE Pow(2, 8 * size) - 1

\* the size bytes of the two's complement of n, in the given byte order
IntToBytes(n, size, order) ==
  LET u == IF n < 0 THEN n + Pow(2, 8 * size) ELSE n
      le == [i \in 1..size |-> (u \div Pow(256, i - 1)) % 256]
  IN IF order = "<" THEN le ELSE [i \in 1..size |-> le[size + 1 - i]]

RECURSIVE BytesToNat(_)
\* the natural number a little-endian byte sequence denotes
BytesToNat(le) ==
  IF le = <<>> THEN 0 ELSE le[1] + 256 * BytesToNat(Tail(le))

BytesToInt(b, size, symbol, order) ==
  LET le == IF order = "<" THEN b ELSE [i \in 1..size |-> b[size + 1 - i]]
      u == BytesToNat(le)
  IN IF Signed(symbol) /\ u >= Pow(2, 8 * size - 1)
       THEN u - Pow(2, 8 * size) ELSE u

\* pack without the range check: the value is reduced modulo 2^(8*size)
pack_wrapping(size, symbol, order, val) ==
  IF symbol = "?"
    THEN Bytes(<<IF Truthy(val) THEN 1 ELSE 0>>)
    ELSE IF val.k \notin {"int", "bool"}
      THEN RaiseEnc(StructError)
      ELSE LET n == IF val.k = "bool" THEN (IF val.b THEN 1 ELSE 0) ELSE val.i
           IN Bytes(IntToBytes(n % Pow(2, 8 * size), size, order))

pack(size, symbol, order, val) ==
  IF symbol = "?"
    THEN Bytes(<<IF Truthy(val) THEN 1 ELSE 0>>)
    ELSE IF val.k \notin {"int", "bool"}
      THEN RaiseEnc(StructError)
      ELSE LET n == IF val.k = "bool" THEN (IF val.b THEN 1 ELSE 0) ELSE val.i
           IN IF n < MinOf(size, symbol) \/ n > MaxOf(size, symbol)
                THEN RaiseEnc(StructError)
                ELSE Bytes(IntToBytes(n, size, order))

\* unpack(fmt, b)[0]: b must hold exactly size bytes
unpack(size, symbol, order, b) ==
  IF Len(b) # size
    THEN RaiseDec(StructError)
    ELSE IF symbol = "?"
      THEN Decoded(BoolV(b[1] # 0), <<>>)
      ELSE Decoded(IntV(BytesToInt(b, size, symbol, order)), <<>>)

\* pack('%ds' % size, b): the bytes cut or zero-padded to size
pack_s(size, b) ==
  IF Len(b) >= size THEN Take(b, size) ELSE b \o Zeros(size - Len(b))

(***************************************************************************)
(* The utf8 codec on code points below 2048 (one- and two-byte forms).     *)
(* Lead bytes 224..244 start longer forms and are not drawn as inputs.     *)
(***************************************************************************)
Utf8Char(cp) ==
  IF cp < 128 THEN <<cp>> ELSE <<192 + (cp \div 64), 128 + (cp % 64)>>

RECURSIVE Utf8Encode(_)
Utf8Encode(s) ==
  IF s = <<>> THEN <<>> ELSE Utf8Char(s[1]) \o Utf8Encode(Tail(s))

RECURSIVE Utf8Valid(_)
Utf8Valid(b) ==
  IF b = <<>> THEN TRUE
  ELSE IF b[1] < 128 THEN Utf8Valid(Tail(b))
  ELSE IF b[1] >= 194 /\ b[1] <= 223 /\ Len(b) >= 2 /\ b[2] >= 128 /\ b[2] <= 191
    THEN Utf8Valid(Tail(Tail(b)))
  ELSE FALSE

RECURSIVE Utf8Decode(_)
\* the code points of a valid byte sequence
Utf8Decode(b) ==
  IF b = <<>> THEN <<>>
  ELSE IF b[1] < 128 THEN <<b[1]>> \o Utf8Decode(Tail(b))
  ELSE <<(b[1] - 192) * 64 + (b[2] - 128)>> \o Utf8Decode(Tail(Tail(b)))

RECURSIVE rstrip0(_)
\* str.rstrip('\0')
rstrip0(s) ==
  IF s # <<>> /\ s[Len(s)] = 0 THEN rstrip0(SubSeq(s, 1, Len(s) - 1)) ELSE s

(***************************************************************************)
(* Type descriptors.  serial_type metadata is a descriptor, NoneT (no      *)
(* descriptor bound) or OtherT (an object that is neither a SerialType nor *)
(* a serializable class).                                                  *)
(***************************************************************************)
PrimitiveType(name, size, symbol, byte_order) ==
  [t |-> "prim", name |-> name, size |-> size, symbol |-> symbol,
   order |-> byte_order]

Boolean(byte_order) == PrimitiveType("Boolean", 1, "?", byte_order)

Uint8(byte_order) == PrimitiveType("Uint8", 1, "B", byte_order)

Int8(byte_order) == PrimitiveType("Int8", 1, "b", byte_order)

Int16(byte_order) == PrimitiveType("Int16", 2, "h", byte_order)

Uint16(byte_order) == PrimitiveType("Uint16", 2, "H", byte_order)

bool_t == Boolean("<")

uint8_t == Uint8("<")

int8_t == Int8("<")

int16_t == Int16("<")

uint16_t == Uint16("<")

StringType(size) ==
  [t |-> "str", name |-> "StringType", size |-> size, encoding |-> "utf8"]

char_arr(x) == StringType(x)

NoneT == [t |-> "none", name |-> "NoneType"]

OtherT == [t |-> "other", name |-> "str"]

\* attr.ib with metadata {'serial_type': serial_type}
field(name, serial_type) == [name |-> name, serial_type |-> serial_type]

\* an @serializable class; fixed: it extends FixedSizeClass
SerialClass(name, attrs, fixed) ==
  [t |-> "cls", name |-> name, attrs |-> attrs, fixed |-> fixed]

\* kind.__class__.__name__
ClassName(kind) == IF kind.t = "cls" THEN "type" ELSE kind.name

\* isinstance(kind, SerialType)
IsSerialType(kind) == kind.t \in {"prim", "str", "arr"}

\* hasattr(obj, '__attrs_attrs__') for a class object
_supports_encoding(kind) == kind.t = "cls"

(***************************************************************************)
(* Size protocol.                                                          *)
(***************************************************************************)
RECURSIVE get_size(_)
RECURSIVE SumSizes(_, _)

\* sum([a.metadata['serial_type'].get_size() for a in attrs[i..]])
SumSizes(attrs, i) ==
  IF i > Len(attrs) THEN Size(0)
  ELSE LET s == get_size(attrs[i].serial_type)
           r == SumSizes(attrs, i + 1)
       IN IF ~s.ok THEN s ELSE IF ~r.ok THEN r ELSE Size(s.n + r.n)

FixedSizeClass_get_size(cls) == SumSizes(cls.attrs, 1)

get_size(kind) ==
  CASE kind.t = "prim" -> Size(kind.size)
    [] kind.t = "str" -> Size(kind.size)
    [] kind.t = "arr" -> Size(kind.size)
    [] kind.t = "cls" /\ kind.fixed -> FixedSizeClass_get_size(kind)
    [] OTHER -> RaiseSize(AttributeError)

\* Array.__init__: the size is computed once, from the element's get_size()
Array(serial_type, length) ==
  [t |-> "arr", name |-> "Array", elem |-> serial_type, length |-> length,
   size |-> length * get_size(serial_type).n]

(***************************************************************************)
(* Primitive and text codecs.                                              *)
(***************************************************************************)
PrimitiveType_encode(kind, val) ==
  pack(kind.size, kind.symbol, kind.order, val)

PrimitiveType_decode(kind, b) ==
  LET r == unpack(kind.size, kind.symbol, kind.order, Take(b, kind.size))
  IN IF r.ok THEN Decoded(r.val, Drop(b, kind.size)) ELSE r

StringType_encode(kind, val) ==
  IF val.k # "str"
    THEN RaiseEnc(TypeError)
    ELSE Bytes(pack_s(kind.size, Utf8Encode(val.s)))

\* StringType.decode without the rstrip of the padding
StringType_decode_unstripped(kind, b) ==
  LET rawbytes == Take(b, kind.size)
  IN IF Len(rawbytes) # kind.size THEN RaiseDec(StructError)
     ELSE IF ~Utf8Valid(rawbytes) THEN RaiseDec(UnicodeDecodeError)
     ELSE Decoded(StrV(Utf8Decode(rawbytes)), Drop(b, kind.size))

StringType_decode(kind, b) ==
  LET rawbytes == Take(b, kind.size)
  IN IF Len(rawbytes) # kind.size THEN RaiseDec(StructError)
     ELSE IF ~Utf8Valid(rawbytes) THEN RaiseDec(UnicodeDecodeError)
     ELSE Decoded(StrV(rstrip0(Utf8Decode(rawbytes))), Drop(b, kind.size))

(***************************************************************************)
(* reduce(lambda x, y: x+y, chunks): raises TypeError on an empty list.    *)
(***************************************************************************)
RECURSIVE Concat(_)
Concat(chunks) ==
  IF chunks = <<>> THEN <<>> ELSE chunks[1] \o Concat(Tail(chunks))

reduce(chunks) ==
  IF chunks = <<>> THEN RaiseEnc(TypeError) ELSE Bytes(Concat(chunks))

\* the None a helper returns for a field with no bound descriptor
NoneRet == [ok |-> TRUE, none |-> TRUE]

IsNone(r) == "none" \in DOMAIN r

(***************************************************************************)
(* Array and record codecs.                                                *)
(***************************************************************************)
RECURSIVE _encode_val(_, _)
RECURSIVE _decode_val(_, _)
RECURSIVE encode(_)
RECURSIVE decode(_, _)
RECURSIVE Array_encode_loop(_, _, _, _)
RECURSIVE Array_decode_loop(_, _, _, _)
RECURSIVE encode_loop(_, _, _)
RECURSIVE decode_loop(_, _, _, _)

\* len(values) and values[i]: a list, or a str whose items are its characters
HasLen(values) == values.k \in {"list", "str"}

len(values) == IF values.k = "list" THEN Len(values.l) ELSE Len(values.s)

Item(values, i) ==
  IF values.k = "list" THEN values.l[i] ELSE StrV(<<values.s[i]>>)

Array__encode_element(kind, val, pos) ==
  LET r == _encode_val(kind.elem, val)
  IN IF r.ok THEN r
     ELSE RaiseEnc([type |-> "Exception",
                    msg |-> "Could not encode array value at position",
                    pos |-> pos, serial_type |-> ClassName(kind.elem),
                    value |-> val, cause |-> r.err])

\* the body of the for loop of Array.encode, from index i (0-based) on
Array_encode_loop(kind, values, i, chunks) ==
  IF i >= kind.length THEN reduce(chunks)
  ELSE LET v == IF i < len(values)
                  THEN Array__encode_element(kind, Item(values, i + 1), i)
                  ELSE Bytes(Zeros(get_size(kind.elem).n))
       IN IF ~v.ok THEN v
          ELSE Array_encode_loop(kind, values, i + 1, Append(chunks, v.bytes))

\* the too-long branch raises TypeError: its message is formatted with one
\* argument for two placeholders
Array_encode(kind, values) ==
  IF ~HasLen(values) THEN RaiseEnc(TypeError)
  ELSE IF len(values) > kind.length THEN RaiseEnc(TypeError)
  ELSE Array_encode_loop(kind, values, 0, <<>>)

\* Array.decode that hands every element decode the original buffer
Array_decode_loop_unthreaded(kind, b, i, arr) ==
  IF i >= kind.length THEN Decoded(ListV(arr), b)
  ELSE LET r == _decode_val(kind.elem, b)
       IN IF ~r.ok THEN r
          ELSE Array_decode_loop(kind, b, i + 1, Append(arr, r.val))

Array_decode_loop(kind, b, i, arr) ==
  IF i >= kind.length THEN Decoded(ListV(arr), b)
  ELSE LET r == _decode_val(kind.elem, b)
       IN IF ~r.ok THEN r
          ELSE Array_decode_loop(kind, r.rest, i + 1, Append(arr, r.val))

Array_decode(kind, b) == Array_decode_loop(kind, b, 0, <<>>)

SerialType_encode(kind, val) ==
  CASE kind.t = "prim" -> PrimitiveType_encode(kind, val)
    [] kind.t = "str" -> StringType_encode(kind, val)
    [] kind.t = "arr" -> Array_encode(kind, val)

SerialType_decode(kind, b) ==
  CASE kind.t = "prim" -> PrimitiveType_decode(kind, b)
    [] kind.t = "str" -> StringType_decode(kind, b)
    [] kind.t = "arr" -> Array_decode(kind, b)

_encode_val(kind, val) ==
  IF IsSerialType(kind) THEN SerialType_encode(kind, val)
  ELSE IF _supports_encoding(kind) THEN encode(val)
  ELSE RaiseEnc([type |-> "Exception",
                 msg |-> "Cannot encode value as serial type",
                 kind |-> kind.name])

\* _encode_attr without the try/except: the field's error escapes as it is
_encode_attr_unwrapped(attribute, val, obj) ==
  LET kind == attribute.serial_type
  IN IF kind.t = "none" THEN NoneRet ELSE _encode_val(kind, val)

_encode_attr(attribute, val, obj) ==
  LET kind == attribute.serial_type
  IN IF kind.t = "none" THEN NoneRet
     ELSE LET r == _encode_val(kind, val)
          IN IF r.ok THEN r
             ELSE IF r.err.type = "struct.error"
               THEN RaiseEnc([type |-> "Exception",
                              msg |-> "Could not encode field",
                              field |-> attribute.name, cls |-> obj.cls.name,
                              cause |-> r.err])
               ELSE RaiseEnc([type |-> "Exception",
                              msg |-> "Error encoding field",
                              field |-> attribute.name, cause |-> r.err])

\* encode() that puts each chunk in front of the earlier ones
encode_loop_reversed(obj, i, chunks) ==
  IF i > Len(obj.cls.attrs) THEN reduce(chunks)
  ELSE LET c == _encode_attr(obj.cls.attrs[i], obj.o[i], obj)
       IN IF ~c.ok THEN c
          ELSE IF IsNone(c) THEN encode_loop(obj, i + 1, chunks)
          ELSE encode_loop(obj, i + 1, <<c.bytes>> \o chunks)

\* the for loop of encode(), from attribute i (1-based) on
encode_loop(obj, i, chunks) ==
  IF i > Len(obj.cls.attrs) THEN reduce(chunks)
  ELSE LET c == _encode_attr(obj.cls.attrs[i], obj.o[i], obj)
       IN IF ~c.ok THEN c
          ELSE IF IsNone(c) THEN encode_loop(obj, i + 1, chunks)
          ELSE encode_loop(obj, i + 1, Append(chunks, c.bytes))

encode(obj) ==
  IF obj.k # "obj"
    THEN RaiseEnc([type |-> "Exception",
                   msg |-> "Object does not support encoding"])
    ELSE encode_loop(obj, 1, <<>>)

_decode_val(kind, b) ==
  IF IsSerialType(kind) THEN SerialType_decode(kind, b)
  ELSE IF _supports_encoding(kind) THEN decode(kind, b)
  ELSE RaiseDec([type |-> "Exception",
                 msg |-> "Can't decode", kind |-> kind.name])

\* _decode_attr that swallows the field's error and leaves the field None
_decode_attr_recovering(b, attribute, cls) ==
  LET kind == attribute.serial_type
  IN IF kind.t = "none" THEN NoneRet
     ELSE LET r == _decode_val(kind, b)
          IN IF r.ok THEN r ELSE Decoded(NoneV, b)

_decode_attr(b, attribute, cls) ==
  LET kind == attribute.serial_type
  IN IF kind.t = "none" THEN NoneRet
     ELSE LET r == _decode_val(kind, b)
          IN IF r.ok THEN r
             ELSE RaiseDec([type |-> "Exception",
                            msg |-> "Could not decode buffer into field",
                            field |-> attribute.name,
                            serial_type |-> ClassName(kind),
                            cls |-> cls.name, cause |-> r.err])

\* cls(**arg_list): the attrs-generated constructor takes every declared
\* attribute by name (the classes here declare no defaults)
Construct(cls, arg_list) ==
  IF [i \in 1..Len(arg_list) |-> arg_list[i].name]
       = [i \in 1..Len(cls.attrs) |-> cls.attrs[i].name]
    THEN ObjV(cls, [i \in 1..Len(arg_list) |-> arg_list[i].val])
    ELSE NoneV

\* the for loop of decode(), from attribute i on; unpacking the None that
\* _decode_attr returns for an unbound field raises TypeError
decode_loop(cls, b, i, arg_list) ==
  IF i > Len(cls.attrs)
    THEN LET o == Construct(cls, arg_list)
         IN IF o = NoneV THEN RaiseDec(TypeError) ELSE Decoded(o, b)
  ELSE LET r == _decode_attr(b, cls.attrs[i], cls)
       IN IF ~r.ok THEN r
          ELSE IF IsNone(r) THEN RaiseDec(TypeError)
          ELSE decode_loop(cls, r.rest, i + 1,
                 Append(arg_list, [name |-> cls.attrs[i].name, val |-> r.val]))

decode(cls, b) ==
  IF ~_supports_encoding(cls)
    THEN RaiseDec([type |-> "Exception",
                   msg |-> "Class does not support decoding"])
    ELSE decode_loop(cls, b, 1, <<>>)

(***************************************************************************)
(* The descriptors and record classes the driver exercises.  Foo, Basic    *)
(* follow tests/test_objects.py (with 16-bit integers); the others cover   *)
(* unbound fields, nesting, and an unsupported bound descriptor.           *)
(***************************************************************************)
Foo == SerialClass("Foo", <<field("x", bool_t), field("y", int16_t)>>, TRUE)

Basic ==
  SerialClass("Basic", <<field("x", uint16_t), field("y", char_arr(2))>>, FALSE)

Swapped ==
  SerialClass("Swapped", <<field("y", char_arr(2)), field("x", uint16_t)>>, FALSE)

Mixed ==
  SerialClass("Mixed",
    <<field("x", uint8_t), field("tag", NoneT), field("y", uint8_t)>>, TRUE)

NoBound == SerialClass("NoBound", <<field("tag", NoneT)>>, TRUE)

Outer ==
  SerialClass("Outer",
    <<field("head", Foo), field("items", Array(Foo, 1))>>, TRUE)

Holder ==
  SerialClass("Holder",
    <<field("n", uint8_t), field("inner", NoBound)>>, FALSE)

Wrap == SerialClass("Wrap", <<field("inner", Mixed)>>, FALSE)

Bad == SerialClass("Bad", <<field("x", uint8_t), field("f", OtherT)>>, FALSE)

Primitives == {bool_t, uint8_t, int8_t, int16_t, uint16_t, Uint16(">")}

Strings == {char_arr(n) : n \in 0..MaxStrSize}

ArrayElems == {uint8_t, Uint16(">"), char_arr(1), Foo}

Arrays == {Array(e, n) : e \in ArrayElems, n \in 0..MaxArrayLen}

Classes == {Foo, Basic, Swapped, Mixed, NoBound, Outer, Holder, Wrap, Bad}

Kinds == Primitives \cup Strings \cup Arrays \cup Classes

(***************************************************************************)
(* Input values.                                                           *)
(***************************************************************************)
ByteSamples == {0, 65, 169, 195}

Chars == {0, 65, 233}

IntSamples ==
  {0 - 32769, 0 - 32768, 0 - 129, 0 - 128, 0 - 1, 0, 1, 17, 127, 128, 255,
   256, 32767, 32768, 65535, 65536}

SeqsUpTo(S, n) == UNION {[1..m -> S] : m \in 0..n}

Texts == SeqsUpTo(Chars, MaxTextLen)

RECURSIVE SmallValues(_)
RECURSIVE AttrTuples(_, _)

\* the value tuples of the attributes i.. of a class
AttrTuples(attrs, i) ==
  IF i > Len(attrs) THEN {<<>>}
  ELSE LET k == attrs[i].serial_type
           S == IF k.t \in {"none", "other"} THEN {IntV(7)} ELSE SmallValues(k)
       IN {<<x>> \o rest : x \in S, rest \in AttrTuples(attrs, i + 1)}

\* a few values per descriptor, valid and invalid, for use inside containers
SmallValues(kind) ==
  CASE kind.t = "prim" /\ kind.symbol = "?" -> {BoolV(TRUE), BoolV(FALSE)}
    [] kind.t = "prim" /\ kind.symbol # "?" ->
         {IntV(MaxOf(kind.size, kind.symbol) + 1),
          IntV(IF Signed(kind.symbol) THEN 0 - 123
               ELSE MaxOf(kind.size, kind.symbol))}
    [] kind.t = "str" -> {StrV(<<65>>), StrV(<<233>>)}
    [] kind.t = "arr" ->
         {ListV(s) : s \in SeqsUpTo(SmallValues(kind.elem), kind.length + 1)}
    [] kind.t = "cls" -> {ObjV(kind, t) : t \in AttrTuples(kind.attrs, 1)}

Values(kind) ==
  CASE kind.t = "prim" ->
         {IntV(i) : i \in IntSamples} \cup {BoolV(TRUE), BoolV(FALSE)}
           \cup {StrV(<<65>>), NoneV}
    [] kind.t = "str" -> {StrV(s) : s \in Texts} \cup {IntV(0)}
    [] OTHER -> SmallValues(kind) \cup {IntV(0)}

(***************************************************************************)
(* The driver.  A descriptor and a value are fixed at the start; the value *)
(* is encoded, the buffer is edited (a byte appended or cut off its end),  *)
(* the buffer is decoded, the size is asked for.                           *)
(***************************************************************************)
Init ==
  /\ descr \in Kinds
  /\ input \in Values(descr)
  /\ buffer = <<>>
  /\ fresh = FALSE
  /\ edits = 0
  /\ op = "init"
  /\ out = NoneRet

\* d.encode(v) for a SerialType, encode(v) for a record class
CallEncode(kind, val) ==
  IF kind.t = "cls" THEN encode(val) ELSE SerialType_encode(kind, val)

\* d.decode(b) for a SerialType, decode(cls, b) for a record class
CallDecode(kind, b) ==
  IF kind.t = "cls" THEN decode(kind, b) ELSE SerialType_decode(kind, b)

DoEncode ==
  /\ out' = CallEncode(descr, input)
  /\ op' = "encode"
  /\ buffer' = IF out'.ok THEN out'.bytes ELSE buffer
  /\ fresh' = out'.ok
  /\ edits' = IF out'.ok THEN 0 ELSE edits
  /\ UNCHANGED <<descr, input>>

DoDecode ==
  /\ out' = CallDecode(descr, buffer)
  /\ op' = "decode"
  /\ UNCHANGED <<descr, input, buffer, fresh, edits>>

DoGetSize ==
  /\ out' = get_size(descr)
  /\ op' = "get_size"
  /\ UNCHANGED <<descr, input, buffer, fresh, edits>>

AppendByte ==
  /\ edits < MaxEdits
  /\ \E b \in ByteSamples : buffer' = Append(buffer, b)
  /\ edits' = edits + 1
  /\ fresh' = FALSE
  /\ op' = "edit"
  /\ out' = NoneRet
  /\ UNCHANGED <<descr, input>>

Chop ==
  /\ edits < MaxEdits
  /\ buffer # <<>>
  /\ buffer' = SubSeq(buffer, 1, Len(buffer) - 1)
  /\ edits' = edits + 1
  /\ fresh' = FALSE
  /\ op' = "edit"
  /\ out' = NoneRet
  /\ UNCHANGED <<descr, input>>

Next == DoEncode \/ DoDecode \/ DoGetSize \/ AppendByte \/ Chop

Spec == Init /\ [][Next]_vars

(***************************************************************************)
(* Vocabulary of the properties.                                           *)
(***************************************************************************)
IsIntPrim(kind) == kind.t = "prim" /\ kind.symbol # "?"

Bound(a) == a.serial_type.t # "none"

RECURSIVE RootCause(_)
\* the innermost exception of a __cause__ chain
RootCause(e) == IF "cause" \in DOMAIN e THEN RootCause(e.cause) ELSE e

RECURSIVE InDomain(_, _, _)
\* val is a value the descriptor is meant to carry.  exact = FALSE: a
\* sequence has at most length elements and unbound fields are allowed;
\* exact = TRUE: a sequence has exactly length >= 1 elements and every
\* field of a record (there is at least one) is bound.
InDomain(kind, val, exact) ==
  CASE kind.t = "prim" /\ kind.symbol = "?" -> val.k = "bool"
    [] IsIntPrim(kind) ->
         /\ val.k = "int"
         /\ val.i >= (IF Signed(kind.symbol) THEN 0 - Pow(2, 8 * kind.size - 1) ELSE 0)
         /\ val.i <= (IF Signed(kind.symbol) THEN Pow(2, 8 * kind.size - 1) - 1
                      ELSE Pow(2, 8 * kind.size) - 1)
    [] kind.t = "str" ->
         /\ val.k = "str"
         /\ Len(Utf8Encode(val.s)) <= kind.size
         /\ (val.s = <<>> \/ val.s[Len(val.s)] # 0)
    [] kind.t = "arr" ->
         /\ val.k = "list"
         /\ IF exact THEN Len(val.l) = kind.length /\ kind.length >= 1
                     ELSE Len(val.l) <= kind.length
         /\ \A i \in 1..Len(val.l) : InDomain(kind.elem, val.l[i], exact)
    [] kind.t = "cls" ->
         /\ val.k = "obj"
         /\ val.cls = kind
         /\ exact => /\ Len(kind.attrs) >= 1
                     /\ \A i \in 1..Len(kind.attrs) : Bound(kind.attrs[i])
         /\ \A i \in 1..Len(kind.attrs) :
              Bound(kind.attrs[i]) =>
                InDomain(kind.attrs[i].serial_type, val.o[i], exact)
    [] OTHER -> FALSE

\* the value an element descriptor decodes from zero bytes
ZeroValue(kind) == _decode_val(kind, Zeros(get_size(kind).n)).val

C3_RangeEnforcement ==
  (op = "encode" /\ IsIntPrim(descr) /\ input.k = "int") =>
    LET w == descr.size
        lo == IF descr.symbol \in {"b", "h"} THEN 0 - Pow(2, 8 * w - 1) ELSE 0
        hi == IF descr.symbol \in {"b", "h"} THEN Pow(2, 8 * w - 1) - 1
              ELSE Pow(2, 8 * w) - 1
    IN IF lo <= input.i /\ input.i <= hi
         THEN /\ out.ok
              /\ Len(out.bytes) = w
              /\ \A j \in 1..w : out.bytes[j] \in 0..255
              /\ BytesToInt(out.bytes, w, descr.symbol, descr.order) = input.i
         ELSE /\ ~out.ok
              /\ out.bytes = <<>>
              /\ out.err = StructError

C3_Witness ==
  /\ op = "encode" /\ descr = uint8_t /\ input = IntV(256) /\ ~out.ok

(***************************************************************************)
(* C9: decoding a buffer shorter than the descriptor's size fails; no      *)
(* value and no partial array or record is returned, and the failure is    *)
(* the inner decode's error, carried up through the wrapping layers.       *)
(***************************************************************************)
C9_TruncatedInput ==
  (op = "decode" /\ get_size(descr).ok /\ Len(buffer) < get_size(descr).n) =>
    /\ ~out.ok
    /\ out.val = NoneV
    /\ out.rest = <<>>
    /\ RootCause(out.err) \in {StructError, UnicodeDecodeError}

C9_Witness ==
  /\ op = "decode" /\ descr = Outer /\ Len(buffer) = 5 /\ ~out.ok
  /\ RootCause(out.err) = StructError

(***************************************************************************)
(* Record layout vocabulary: the encoding of field i on its own, and the   *)
(* byte offset of field i (the lengths of the bound fields before it).     *)
(***************************************************************************)
FieldBytes(obj, i) == _encode_val(obj.cls.attrs[i].serial_type, obj.o[i])

BoundIdx(cls) == {i \in 1..Len(cls.attrs) : Bound(cls.attrs[i])}

RECURSIVE Offset(_, _)
Offset(obj, i) ==
  IF i <= 1 THEN 0
  ELSE Offset(obj, i - 1)
         + (IF Bound(obj.cls.attrs[i - 1])
              THEN Len(FieldBytes(obj, i - 1).bytes) ELSE 0)

RECURSIVE SizeOffset(_, _)
\* the sum of the sizes of the fields before field i
SizeOffset(cls, i) ==
  IF i <= 1 THEN 0
  ELSE SizeOffset(cls, i - 1) + get_size(cls.attrs[i - 1].serial_type).n

IsInstance(val, cls) == val.k = "obj" /\ val.cls = cls

(***************************************************************************)
(* C7: when encode(obj) returns, its bytes are exactly the bound fields'   *)
(* own encodings laid end to end in declared order, with nothing before,   *)
(* between or after them; an integer field occupies its declared width in  *)
(* its byte order, a nested record or an Array of records contributes      *)
(* those records' own encodings; encode returns whenever some field is     *)
(* bound and every bound field encodes; decode reads the fields at the     *)
(* same offsets in the same order; and with the declared order of two      *)
(* fields swapped the two encodings change places.                         *)
(***************************************************************************)
C7_WireFormat ==
  /\ (op = "encode" /\ descr.t = "cls" /\ IsInstance(input, descr)) =>
       LET A == descr.attrs
           B == BoundIdx(descr)
       IN /\ (B # {} /\ \A i \in B : FieldBytes(input, i).ok) => out.ok
          /\ out.ok =>
               /\ Len(out.bytes) = Offset(input, Len(A) + 1)
               /\ \A i \in B :
                    /\ SubSeq(out.bytes, Offset(input, i) + 1, Offset(input, i + 1))
                         = FieldBytes(input, i).bytes
                    /\ IsIntPrim(A[i].serial_type) =>
                         /\ Offset(input, i + 1) - Offset(input, i)
                              = A[i].serial_type.size
                         /\ BytesToInt(FieldBytes(input, i).bytes,
                                       A[i].serial_type.size,
                                       A[i].serial_type.symbol,
                                       A[i].serial_type.order) = input.o[i].i
                    /\ A[i].serial_type.t = "cls" =>
                         FieldBytes(input, i) = encode(input.o[i])
                    /\ (A[i].serial_type.t = "arr"
                          /\ A[i].serial_type.elem.t = "cls") =>
                         \A j \in 1..Len(input.o[i].l) :
                           LET w == get_size(A[i].serial_type.elem).n
                           IN SubSeq(FieldBytes(input, i).bytes,
                                     (j - 1) * w + 1, j * w)
                                = encode(input.o[i].l[j]).bytes
  /\ (op = "decode" /\ descr.t = "cls" /\ out.ok) =>
       /\ out.val.cls = descr
       /\ \A i \in 1..Len(descr.attrs) :
            out.val.o[i]
              = _decode_val(descr.attrs[i].serial_type,
                            Drop(buffer, SizeOffset(descr, i))).val
  /\ (op = "encode" /\ descr = Basic /\ IsInstance(input, descr) /\ out.ok) =>
       LET w == Len(FieldBytes(input, 1).bytes)
       IN encode(ObjV(Swapped, <<input.o[2], input.o[1]>>))
            = Bytes(Drop(out.bytes, w) \o Take(out.bytes, w))

C7_Witness ==
  /\ op = "encode" /\ descr = Outer /\ out.ok
  /\ Len(input.o[2].l) = 1
  /\ input.o[1] # input.o[2].l[1]

(***************************************************************************)
(* C8 as stated: for a fixed-size descriptor and a buffer of at least its  *)
(* size, decode returns, and the remainder is the buffer without its first *)
(* get_size() bytes.                                                       *)
(***************************************************************************)
C8_DecodeAlwaysReturns ==
  (op = "decode" /\ get_size(descr).ok /\ Len(buffer) >= get_size(descr).n) =>
    /\ out.ok
    /\ out.rest = Drop(buffer, get_size(descr).n)

(***************************************************************************)
(* C8 amended: for a fixed-size descriptor and a buffer of at least its    *)
(* size, decode either fails with the text codec's UnicodeDecodeError (the *)
(* bytes of a text unit are not valid utf8) or returns the buffer without  *)
(* its first get_size() bytes as the remainder; an Array then returns      *)
(* exactly n values, the i-th decoded from the buffer at offset            *)
(* (i-1) * element size; decode leaves the buffer unchanged.               *)
(***************************************************************************)
C8_Remainder ==
  (op = "decode" /\ get_size(descr).ok /\ Len(buffer) >= get_size(descr).n) =>
    IF out.ok
      THEN /\ out.rest = Drop(buffer, get_size(descr).n)
           /\ Len(out.rest) = Len(buffer) - get_size(descr).n
           /\ descr.t = "arr" =>
                /\ Len(out.val.l) = descr.length
                /\ \A i \in 1..descr.length :
                     out.val.l[i]
                       = _decode_val(descr.elem,
                           Drop(buffer, (i - 1) * get_size(descr.elem).n)).val
      ELSE RootCause(out.err) = UnicodeDecodeError

C8_DecodeRemainder ==
  /\ []C8_Remainder
  /\ [][op' = "decode" => buffer' = buffer]_vars

C8_Witness ==
  /\ op = "decode" /\ descr = Array(Foo, 2) /\ out.ok
  /\ Len(buffer) = 7 /\ Len(out.rest) = 1
  /\ out.val.l[1] # out.val.l[2]

(***************************************************************************)
(* Error wrapping vocabulary.                                              *)
(***************************************************************************)
FailingFields(obj) == {i \in BoundIdx(obj.cls) : ~FieldBytes(obj, i).ok}

FailingItems(kind, values) ==
  {i \in 1..Len(values.l) : ~_encode_val(kind.elem, values.l[i]).ok}

Min(S) == CHOOSE x \in S : \A y \in S : x <= y

\* the error Array.encode raises for the first failing element
ElementErrorOK(kind, values, e) ==
  LET i == Min(FailingItems(kind, values))
  IN /\ e.type = "Exception"
     /\ e.pos = i - 1
     /\ e.serial_type = ClassName(kind.elem)
     /\ e.value = values.l[i]
     /\ e.cause = _encode_val(kind.elem, values.l[i]).err

ArrayFailure ==
  /\ op = "encode" /\ descr.t = "arr" /\ input.k = "list"
  /\ Len(input.l) <= descr.length
  /\ FailingItems(descr, input) # {}

FieldFailure ==
  /\ op = "encode" /\ descr.t = "cls" /\ IsInstance(input, descr)
  /\ FailingFields(input) # {}

(***************************************************************************)
(* C10 as stated: whenever a bound field fails to encode, encode(obj)      *)
(* fails with an error that names the field and the record type and has    *)
(* the field's error as its cause.                                         *)
(***************************************************************************)
C10_AlwaysNamesRecordType ==
  FieldFailure =>
    LET i == Min(FailingFields(input))
    IN /\ ~out.ok
       /\ out.err.field = descr.attrs[i].name
       /\ out.err.cause = FieldBytes(input, i).err
       /\ "cls" \in DOMAIN out.err
       /\ out.err.cls = descr.name

(***************************************************************************)
(* C10 amended: whenever a bound field fails to encode, encode(obj) fails  *)
(* with an error that names the first failing field and has the field's    *)
(* error as its cause; it names the record type as well exactly when that  *)
(* cause is a struct.error raised by the field's own primitive or text     *)
(* descriptor.  An Array element failure is an error carrying the index    *)
(* of the first failing element, the name of the element descriptor's      *)
(* Python type, the failing value, and the element's error as cause.       *)
(***************************************************************************)
C10_ErrorWrapping ==
  /\ FieldFailure =>
       LET i == Min(FailingFields(input))
           c == FieldBytes(input, i).err
       IN /\ ~out.ok
          /\ out.bytes = <<>>
          /\ out.err.type = "Exception"
          /\ out.err.field = descr.attrs[i].name
          /\ out.err.cause = c
          /\ ("cls" \in DOMAIN out.err) <=> (c = StructError)
          /\ c = StructError => out.err.cls = descr.name
          /\ (descr.attrs[i].serial_type.t = "arr"
                /\ input.o[i].k = "list"
                /\ Len(input.o[i].l) <= descr.attrs[i].serial_type.length) =>
               ElementErrorOK(descr.attrs[i].serial_type, input.o[i], c)
  /\ ArrayFailure =>
       /\ ~out.ok
       /\ ElementErrorOK(descr, input, out.err)

C10_Witness ==
  /\ FieldFailure /\ descr = Outer
  /\ FieldBytes(input, 1).ok
  /\ out.err.field = "items"
  /\ out.err.cause.pos = 0
  /\ RootCause(out.err) = StructError

(***************************************************************************)
(* C2: the bytes encode returns number get_size(), and get_size() is the   *)
(* primitive's width, the declared width of a StringType, length times the *)
(* element size of an Array, and the sum of the bound fields' sizes of a   *)
(* FixedSizeClass record.                                                  *)
(***************************************************************************)
IsFixedSize(kind) ==
  kind.t \in {"prim", "str", "arr"} \/ (kind.t = "cls" /\ kind.fixed)

RECURSIVE DeclaredSize(_)
DeclaredSize(kind) ==
  CASE kind.t \in {"prim", "str"} -> kind.size
    [] kind.t = "arr" -> kind.length * DeclaredSize(kind.elem)
    [] kind.t = "cls" ->
         LET F[i \in 0..Len(kind.attrs)] ==
               IF i = 0 THEN 0
               ELSE F[i - 1] + (IF Bound(kind.attrs[i])
                                  THEN DeclaredSize(kind.attrs[i].serial_type)
                                  ELSE 0)
         IN F[Len(kind.attrs)]
    [] OTHER -> 0

C2_SizeConsistency ==
  /\ (op = "get_size" /\ IsFixedSize(descr)) => out = Size(DeclaredSize(descr))
  /\ (op = "encode" /\ IsFixedSize(descr) /\ out.ok) =>
       /\ get_size(descr).ok
       /\ Len(out.bytes) = get_size(descr).n

(***************************************************************************)
(* C4: Array.encode fails for more than n values and otherwise returns the *)
(* values' encodings in index order followed by zero bytes for the missing *)
(* trailing elements.                                                      *)
(***************************************************************************)
C4_ArrayEncode ==
  (op = "encode" /\ descr.t = "arr" /\ input.k = "list") =>
    IF Len(input.l) > descr.length
      THEN ~out.ok /\ out.bytes = <<>>
      ELSE FailingItems(descr, input) = {} =>
             out = Bytes(
               Concat([i \in 1..Len(input.l)
                         |-> _encode_val(descr.elem, input.l[i]).bytes])
               \o Zeros((descr.length - Len(input.l)) * get_size(descr.elem).n))

(***************************************************************************)
(* C5: StringType.encode (width n >= 1) fails when the value's bytes       *)
(* outnumber n, and otherwise returns them zero-padded to n bytes.         *)
(***************************************************************************)
C5_TextTooLong ==
  (op = "encode" /\ descr.t = "str" /\ descr.size >= 1 /\ input.k = "str") =>
    IF Len(Utf8Encode(input.s)) > descr.size
      THEN ~out.ok /\ out.bytes = <<>>
      ELSE out = Bytes(Utf8Encode(input.s)
                         \o Zeros(descr.size - Len(Utf8Encode(input.s))))

(***************************************************************************)
(* C6: a record with unbound fields encodes to its bound fields' encodings *)
(* only (none bound: no bytes), and decodes successfully, consuming the    *)
(* bound fields' bytes only.                                               *)
(***************************************************************************)
C6_UnboundFieldsSkipped ==
  (descr.t = "cls" /\ BoundIdx(descr) # 1..Len(descr.attrs)) =>
    /\ (op = "encode" /\ IsInstance(input, descr)
          /\ FailingFields(input) = {}) =>
         /\ out.ok
         /\ Len(out.bytes) = DeclaredSize(descr)
    /\ (op = "decode" /\ Len(buffer) >= DeclaredSize(descr)
          /\ \A i \in BoundIdx(descr) : descr.attrs[i].serial_type.t = "prim") =>
         /\ out.ok
         /\ out.rest = Drop(buffer, DeclaredSize(descr))

====
